---- MODULE Spec2Model ----
(***************************************************************************)
(* Model of the bup GUI: the Ui application state (Config, Scene, the      *)
(* target Editor and the FilePicker) and Ui::update, one action per        *)
(* Message the views, the subscription and the file-picker command can     *)
(* deliver.  Indices carried by messages are 0-based as in the source;     *)
(* TLA+ sequences are 1-based, so slot i of a Vec is element i + 1.        *)
(***************************************************************************)
EXTENDS Integers, Sequences, FiniteSets, Bags, TLC

(***************************************************************************)
(* Bounds of the model and the input alphabets.                            *)
(***************************************************************************)
\* Spec, the whole application from an empty Config
MaxRepos == 2
MaxTargets == 2
MaxSources == 1
MaxExcludes == 1
MaxPending == 1
\* SpecEditor, one editor session on a stored Config
EditorMaxSources == 2
EditorMaxExcludes == 2

NameInputs == {"", "a"}
PathInputs == {"p"}
ExcludeInputs == {"", "x"}
PassInputs == {"", "s"}
RepoNameInputs == {"", "r"}
DialogErrors ==
    {"Unable to unwrap data from new file dialog",
     "Multiple files returned when one was expected",
     "User cancelled file open",
     "File does not exist"}

(***************************************************************************)
(* Option<T> and Result<(), String>.                                       *)
(***************************************************************************)
None == << >>
Some(x) == << x >>
IsSome(o) == o # << >>
Unwrap(o) == o[1]
Ok == << >>
Err(e) == << e >>

Min(a, b) == IF a <= b THEN a ELSE b

\* Vec::remove(i), i 0-based and in range
VecRemove(v, i) == [j \in 1..(Len(v) - 1) |-> IF j <= i THEN v[j] ELSE v[j + 1]]

\* vec![x; n]
VecRepeat(x, n) == [j \in 1..n |-> x]

\* Vec::resize(n, x)
VecResize(v, n, x) == [j \in 1..n |-> IF j <= Len(v) THEN v[j] ELSE x]

(***************************************************************************)
(* Widget state.  iced's button / text_input state carries nothing the     *)
(* update handlers read; FilePicker carries its own path.                  *)
(***************************************************************************)
ButtonState == "button"
TextInputState == "text_input"
ListItemState == [s_button |-> ButtonState, s_button2 |-> ButtonState]
FilePickerDefault == [path |-> None]

\* path::Message
PM_Error(e) == [tag |-> "Error", v |-> e]
PM_Path(p) == [tag |-> "Path", v |-> p]
PM_SelectPath == [tag |-> "SelectPath", v |-> ""]

\* FilePicker::update: the new picker state
FilePicker_update_reset(fp, msg) ==
    IF msg.tag = "Path" THEN [fp EXCEPT !.path = Some(msg.v)]
    ELSE IF msg.tag = "Error" THEN [fp EXCEPT !.path = None]
    ELSE fp

FilePicker_update(fp, msg) ==
    IF msg.tag = "Path" THEN [fp EXCEPT !.path = Some(msg.v)] ELSE fp

\* FilePicker::update: whether it returns Command::perform(open(), ..)
FilePicker_spawns(msg) == msg.tag = "SelectPath"

\* what nfd::open_file_dialog returns: Err(_) ("Failed"), Response::Okay of a
\* path that exists or not, Response::OkayMultiple, Response::Cancel
Resp(kind, path, exists) == [kind |-> kind, path |-> path, exists |-> exists]
RespCancel == Resp("Cancel", "", FALSE)
DialogResponses ==
    {Resp("Okay", p, b) : p \in PathInputs, b \in BOOLEAN}
        \cup {Resp("Failed", "", FALSE), Resp("OkayMultiple", "", FALSE), RespCancel}

\* path::open: Ok(path) or Err(message)
open(resp) ==
    CASE resp.kind = "Failed" ->
            [ok |-> FALSE, v |-> "Unable to unwrap data from new file dialog"]
      [] resp.kind = "OkayMultiple" ->
            [ok |-> FALSE, v |-> "Multiple files returned when one was expected"]
      [] resp.kind = "Cancel" ->
            [ok |-> FALSE, v |-> "User cancelled file open"]
      [] OTHER ->
            IF resp.exists THEN [ok |-> TRUE, v |-> resp.path]
            ELSE [ok |-> FALSE, v |-> "File does not exist"]

\* the closure of Command::perform(open(), ..): the message delivered
DialogMessage(resp) ==
    IF open(resp).ok THEN PM_Path(open(resp).v) ELSE PM_Error(open(resp).v)

\* what a dialog delivers
DialogOutcomes == {DialogMessage(resp) : resp \in DialogResponses}

(***************************************************************************)
(* Config data.  A Uuid is a positive number (0 is the nil Uuid of         *)
(* Default); IndexMap<Uuid, RepoConfig> is the sequence of its values in   *)
(* insertion order.  Opt<RepoOption> is modelled by its value: the name is *)
(* display only and takes no part in equality.                             *)
(***************************************************************************)
DefaultTarget ==
    [repo |-> 0, name |-> "", sources |-> << >>, excludes |-> << >>,
     duplication |-> << >>]

DefaultConfig ==
    [repos |-> << >>, selected_repo |-> None, passphrase_hash |-> None]

RepoOption_New == [tag |-> "New", id |-> 0]
RepoOption_Select(id) == [tag |-> "Select", id |-> id]

\* RepoOption::id
RepoOption_id(o) == IF o.tag = "Select" THEN Some(o.id) ELSE None

\* position of the repository with key id in the map, 0 if there is none
RepoPos(cfg, id) ==
    IF \E k \in 1..Len(cfg.repos) : cfg.repos[k].id = id
    THEN CHOOSE k \in 1..Len(cfg.repos) : cfg.repos[k].id = id
    ELSE 0

\* Config::find_repo
Config_find_repo(cfg, id) ==
    IF RepoPos(cfg, id) = 0 THEN None ELSE Some(cfg.repos[RepoPos(cfg, id)])

\* position of the selected repository (selected_repo / selected_repo_mut), 0 if None
SelectedPos(cfg) ==
    IF IsSome(cfg.selected_repo) /\ IsSome(RepoOption_id(Unwrap(cfg.selected_repo)))
    THEN RepoPos(cfg, Unwrap(RepoOption_id(Unwrap(cfg.selected_repo))))
    ELSE 0

\* Config::selected_repo
Config_selected_repo(cfg) ==
    IF SelectedPos(cfg) = 0 THEN None ELSE Some(cfg.repos[SelectedPos(cfg)])

\* repo_options: the entries of the pick list
repo_options(cfg) ==
    {RepoOption_New} \cup {RepoOption_Select(cfg.repos[k].id) : k \in 1..Len(cfg.repos)}

(***************************************************************************)
(* verify_target                                                           *)
(***************************************************************************)
verify_target_noexcl(target) ==
    IF target.name = "" THEN Err("Name should not be empty")
    ELSE IF target.sources = << >> THEN Err("Should have at least one source")
    ELSE IF \E j \in 1..Len(target.sources) : target.sources[j] = None
         THEN Err("All sources should have a path")
    ELSE Ok

verify_target_reordered(target) ==
    IF target.sources = << >> THEN Err("Should have at least one source")
    ELSE IF target.name = "" THEN Err("Name should not be empty")
    ELSE IF \E j \in 1..Len(target.sources) : target.sources[j] = None
         THEN Err("All sources should have a path")
    ELSE IF \E j \in 1..Len(target.excludes) : target.excludes[j] = ""
         THEN Err("No exclude should be empty")
    ELSE Ok

verify_target(target) ==
    IF target.name = "" THEN Err("Name should not be empty")
    ELSE IF target.sources = << >> THEN Err("Should have at least one source")
    ELSE IF \E j \in 1..Len(target.sources) : target.sources[j] = None
         THEN Err("All sources should have a path")
    ELSE IF \E j \in 1..Len(target.excludes) : target.excludes[j] = ""
         THEN Err("No exclude should be empty")
    ELSE Ok

(***************************************************************************)
(* The target editor.  EditorMessage is a record with the fields of all    *)
(* its variants: tag, i (index), s (string), pm (path::Message).           *)
(***************************************************************************)
EM(tag, i, s, pm) == [tag |-> tag, i |-> i, s |-> s, pm |-> pm]
EM_SetName(s) == EM("SetName", 0, s, PM_SelectPath)
EM_NewSource == EM("NewSource", 0, "", PM_SelectPath)
EM_Source(i, pm) == EM("Source", i, "", pm)
EM_DelSource(i) == EM("DelSource", i, "", PM_SelectPath)
EM_NewExclude == EM("NewExclude", 0, "", PM_SelectPath)
EM_SetExclude(i, s) == EM("SetExclude", i, s, PM_SelectPath)
EM_DelExclude(i) == EM("DelExclude", i, "", PM_SelectPath)
EM_Save == EM("Save", 0, "", PM_SelectPath)
EM_Cancel == EM("Cancel", 0, "", PM_SelectPath)

\* Editor::with_target
Editor_with_target(target) ==
    [target |-> target,
     error |-> None,
     s_exclude |-> VecRepeat(TextInputState, Len(target.excludes)),
     s_delete_exclude_button |-> VecRepeat(ButtonState, Len(target.excludes)),
     s_source |-> VecRepeat(FilePickerDefault, Len(target.sources)),
     s_delete_source_button |-> VecRepeat(ButtonState, Len(target.sources))]

\* TargetEditor::new_target
Editor_new_target(repo_id) ==
    Editor_with_target([DefaultTarget EXCEPT !.repo = repo_id])

\* the arms of Editor::update
Editor_SetName(e, name) == [e EXCEPT !.target.name = name]

Editor_NewSource(e) ==
    [e EXCEPT !.target.sources = Append(@, None),
              !.s_delete_source_button = Append(@, ButtonState),
              !.s_source = Append(@, FilePickerDefault)]

Editor_Source_first(e, i, pm) ==
    LET e1 == IF pm.tag = "Path"
              THEN [e EXCEPT !.target.sources[1] = Some(pm.v)]
              ELSE e
    IN  [e1 EXCEPT !.s_source[i + 1] = FilePicker_update(@, pm)]

Editor_Source(e, i, pm) ==
    LET e1 == IF pm.tag = "Path"
              THEN [e EXCEPT !.target.sources[i + 1] = Some(pm.v)]
              ELSE e
    IN  [e1 EXCEPT !.s_source[i + 1] = FilePicker_update(@, pm)]

Editor_DelSource_first(e, i) ==
    [e EXCEPT !.target.sources = VecRemove(@, 0)]

Editor_DelSource(e, i) ==
    [e EXCEPT !.target.sources = VecRemove(@, i)]

Editor_NewExclude(e) ==
    [e EXCEPT !.target.excludes = Append(@, ""),
              !.s_exclude = Append(@, TextInputState),
              !.s_delete_exclude_button = Append(@, ButtonState)]

Editor_SetExclude(e, i, s) == [e EXCEPT !.target.excludes[i + 1] = s]

Editor_DelExclude_last(e, i) ==
    [e EXCEPT !.target.excludes = VecRemove(@, Len(@) - 1)]

Editor_DelExclude(e, i) ==
    [e EXCEPT !.target.excludes = VecRemove(@, i)]

Editor_Save(e) ==
    IF verify_target(e.target) # Ok
    THEN [e EXCEPT !.error = Some(Unwrap(verify_target(e.target)))]
    ELSE e

\* Editor::update: the new editor
Editor_update(e, m) ==
    CASE m.tag = "SetName" -> Editor_SetName(e, m.s)
      [] m.tag = "NewSource" -> Editor_NewSource(e)
      [] m.tag = "Source" -> Editor_Source(e, m.i, m.pm)
      [] m.tag = "DelSource" -> Editor_DelSource(e, m.i)
      [] m.tag = "NewExclude" -> Editor_NewExclude(e)
      [] m.tag = "SetExclude" -> Editor_SetExclude(e, m.i, m.s)
      [] m.tag = "DelExclude" -> Editor_DelExclude(e, m.i)
      [] m.tag = "Save" -> Editor_Save(e)
      [] OTHER -> e

\* Editor::update: an index out of bounds (the slice index panics, Vec::remove panics)
Editor_update_panics(e, m) ==
    CASE m.tag = "Source" ->
            \/ m.pm.tag = "Path" /\ m.i >= Len(e.target.sources)
            \/ m.i >= Len(e.s_source)
      [] m.tag = "DelSource" -> m.i >= Len(e.target.sources)
      [] m.tag = "SetExclude" -> m.i >= Len(e.target.excludes)
      [] m.tag = "DelExclude" -> m.i >= Len(e.target.excludes)
      [] OTHER -> FALSE

\* Editor::update: whether the returned Command runs a file dialog
Editor_update_spawns(m) == m.tag = "Source" /\ FilePicker_spawns(m.pm)

(***************************************************************************)
(* Scene and its constructors.                                             *)
(***************************************************************************)
EditorKinds == {"CreateTarget", "EditTarget"}

\* Scene::init
Scene_init ==
    [kind |-> "Initial", passphrase1 |-> "", passphrase2 |-> "", error |-> None]

\* Scene::overview (n_targets is computed and not used: the list starts empty)
Scene_overview(cfg) ==
    [kind |-> "Overview", list |-> << >>, selected_target |-> None]

\* Scene::create_target
Scene_create_target_nil(repo_id) ==
    [kind |-> "CreateTarget", editor |-> Editor_new_target(0)]

Scene_create_target(repo_id) ==
    [kind |-> "CreateTarget", editor |-> Editor_new_target(repo_id)]

\* Scene::create_repo
Scene_create_repo ==
    [kind |-> "CreateRepo", name |-> "", home |-> None, error |-> None,
     s_home |-> FilePickerDefault]

\* Scene::edit panics: unwrap of no selected repository, or index out of bounds
Scene_edit_panics(target_index, cfg) ==
    \/ Config_selected_repo(cfg) = None
    \/ target_index >= Len(Unwrap(Config_selected_repo(cfg)).targets)

\* Scene::edit
Scene_edit_firstrepo(target_index, cfg) ==
    [kind |-> "EditTarget",
     editor |-> Editor_with_target(
                    IF target_index < Len(cfg.repos[1].targets)
                    THEN cfg.repos[1].targets[target_index + 1]
                    ELSE Unwrap(Config_selected_repo(cfg)).targets[target_index + 1]),
     target_index |-> target_index]

Scene_edit_offbyone(target_index, cfg) ==
    [kind |-> "EditTarget",
     editor |-> Editor_with_target(
                    Unwrap(Config_selected_repo(cfg)).targets[target_index + 1]),
     target_index |-> target_index + 1]

Scene_edit_first(target_index, cfg) ==
    [kind |-> "EditTarget",
     editor |-> Editor_with_target(Unwrap(Config_selected_repo(cfg)).targets[1]),
     target_index |-> target_index]

Scene_edit(target_index, cfg) ==
    [kind |-> "EditTarget",
     editor |-> Editor_with_target(
                    Unwrap(Config_selected_repo(cfg)).targets[target_index + 1]),
     target_index |-> target_index]

\* Scene::settings
Scene_settings == [kind |-> "Settings"]

(***************************************************************************)
(* Collaborators: argon2 and rdedup.                                       *)
(***************************************************************************)
\* hash_passphrase (the salt is left out: verification does not depend on it)
hash_passphrase(p) == << "argon2", p >>

\* Argon2::verify_password(..).is_ok()
verify_password(p, hash) == hash = hash_passphrase(p)

\* the Repo handle init_repo / Repo::open return for a home directory
RepoHandle(home) == [home |-> home]

(***************************************************************************)
(* Ui::update.  A handler maps the Ui (config, scene, passphrase, repo) to *)
(* the Ui after it, says whether it panicked (the Ui is then as before),   *)
(* which file dialogs its Command starts, and whether it assigned a new    *)
(* Scene value to self.scene.                                              *)
(***************************************************************************)
Result(u, spawn, newscene) ==
    [ui |-> u, panic |-> FALSE, spawn |-> spawn, newscene |-> newscene]
Panic(u) == [ui |-> u, panic |-> TRUE, spawn |-> {}, newscene |-> FALSE]
Same(u) == Result(u, {}, FALSE)
Enter(u, sc) == Result([u EXCEPT !.scene = sc], {}, TRUE)

\* a running file dialog: the message its closure will deliver (dest, i).
\* cur is history: the index at which the source slot the dialog was asked
\* for is now, after the deletions made since, or -1 once it was deleted;
\* orphan is history too: the editor the dialog was asked in has been left
PendSource(i) == [dest |-> "Source", i |-> i, cur |-> i, orphan |-> FALSE]
PendRepoHome == [dest |-> "RepoHome", i |-> 0, cur |-> 0, orphan |-> FALSE]

\* history: a running dialog once the editor scene it was asked in is replaced
SessionEnded(d) == IF d.dest = "Source" THEN [d EXCEPT !.orphan = TRUE] ELSE d

\* Message::ToOverview
Update_ToOverview_init(u) == Enter(u, Scene_init)

Update_ToOverview(u) == Enter(u, Scene_overview(u.config))

\* Message::NewTarget
Update_NewTarget_firstrepo(u) ==
    IF IsSome(u.config.selected_repo) /\ Unwrap(u.config.selected_repo).tag = "Select"
    THEN Enter(u, Scene_create_target(u.config.repos[1].id))
    ELSE Same(u)

Update_NewTarget_unguarded(u) ==
    Enter(u, Scene_create_target(IF IsSome(u.config.selected_repo)
                                 THEN Unwrap(u.config.selected_repo).id
                                 ELSE 0))

Update_NewTarget(u) ==
    IF IsSome(u.config.selected_repo) /\ Unwrap(u.config.selected_repo).tag = "Select"
    THEN Enter(u, Scene_create_target(Unwrap(u.config.selected_repo).id))
    ELSE Same(u)

\* Message::EditTarget(index) and Message::ListItem(i, ListItemMessage::Edit)
Update_Edit(u, i) ==
    IF Scene_edit_panics(i, u.config) THEN Panic(u)
    ELSE Enter(u, Scene_edit(i, u.config))

\* Message::ListItem(i, ListItemMessage::Expand)
Update_Expand_switch(u, i) ==
    IF u.scene.kind # "Overview" THEN Panic(u)
    ELSE IF u.scene.selected_target = Some(i)
         THEN Same([u EXCEPT !.scene.selected_target = None])
         ELSE Same([u EXCEPT !.scene.selected_target = Some(i)])

Update_Expand(u, i) ==
    IF u.scene.kind # "Overview" THEN Panic(u)
    ELSE IF IsSome(u.scene.selected_target)
         THEN Same([u EXCEPT !.scene.selected_target = None])
         ELSE Same([u EXCEPT !.scene.selected_target = Some(i)])

\* the Ok arm of TargetEditorMessage::Save: the targets of the selected repository
CommitTargets_prepend(targets, sc) ==
    IF sc.kind = "EditTarget"
    THEN [targets EXCEPT ![sc.target_index + 1] = sc.editor.target]
    ELSE << sc.editor.target >> \o targets

CommitTargets_first(targets, sc) ==
    IF sc.kind = "EditTarget"
    THEN [targets EXCEPT ![1] = sc.editor.target]
    ELSE Append(targets, sc.editor.target)

CommitTargets(targets, sc) ==
    IF sc.kind = "EditTarget"
    THEN [targets EXCEPT ![sc.target_index + 1] = sc.editor.target]
    ELSE Append(targets, sc.editor.target)

\* TargetEditorMessage::Save in an editor scene, verify_target is Ok
TargetEditor_SaveOk(u) ==
    IF Config_selected_repo(u.config) = None THEN Panic(u)
    ELSE IF /\ u.scene.kind = "EditTarget"
            /\ u.scene.target_index >= Len(Unwrap(Config_selected_repo(u.config)).targets)
         THEN Panic(u)
    ELSE LET cfg == [u.config EXCEPT !.repos[SelectedPos(u.config)].targets =
                                          CommitTargets(@, u.scene)]
         IN  Enter([u EXCEPT !.config = cfg], Scene_overview(cfg))

\* TargetEditorMessage::Save in an editor scene, verify_target is Err:
\* main sets editor.error, then the routing below runs Editor::update(Save)
TargetEditor_SaveErr_leave(u) == Enter(u, Scene_overview(u.config))

TargetEditor_SaveErr(u) ==
    LET e == u.scene.editor
        e1 == [e EXCEPT !.error = Some(Unwrap(verify_target(e.target)))]
    IN  Same([u EXCEPT !.scene.editor = Editor_update(e1, EM_Save)])

\* TargetEditorMessage::Save
TargetEditor_Save_createonly(u) ==
    IF u.scene.kind # "CreateTarget" THEN Panic(u)
    ELSE IF verify_target(u.scene.editor.target) = Ok THEN TargetEditor_SaveOk(u)
    ELSE TargetEditor_SaveErr(u)

TargetEditor_Save(u) ==
    IF u.scene.kind \notin EditorKinds THEN Panic(u)
    ELSE IF verify_target(u.scene.editor.target) = Ok THEN TargetEditor_SaveOk(u)
    ELSE TargetEditor_SaveErr(u)

\* TargetEditorMessage::Cancel
TargetEditor_Cancel_commit(u) ==
    IF u.scene.kind \in EditorKinds /\ ~TargetEditor_SaveOk(u).panic
    THEN TargetEditor_SaveOk(u)
    ELSE Enter(u, Scene_overview(u.config))

TargetEditor_Cancel(u) == Enter(u, Scene_overview(u.config))

\* every other TargetEditorMessage: routed to Editor::update in an editor scene
TargetEditor_route_live(u, m) ==
    IF u.scene.kind \in EditorKinds
    THEN IF Editor_update_panics(u.scene.editor, m) THEN Panic(u)
         ELSE LET e == Editor_update(u.scene.editor, m)
                  pos == SelectedPos(u.config)
                  cfg == IF u.scene.kind = "EditTarget" /\ pos # 0
                         THEN [u.config EXCEPT
                                  !.repos[pos].targets[u.scene.target_index + 1] = e.target]
                         ELSE u.config
              IN  Result([u EXCEPT !.scene.editor = e, !.config = cfg],
                         IF Editor_update_spawns(m) THEN {PendSource(m.i)} ELSE {},
                         FALSE)
    ELSE Same(u)

TargetEditor_route(u, m) ==
    IF u.scene.kind \in EditorKinds
    THEN IF Editor_update_panics(u.scene.editor, m) THEN Panic(u)
         ELSE Result([u EXCEPT !.scene.editor = Editor_update(@, m)],
                     IF Editor_update_spawns(m) THEN {PendSource(m.i)} ELSE {},
                     FALSE)
    ELSE Same(u)

\* Message::TargetEditor(msg)
Update_TargetEditor(u, m) ==
    CASE m.tag = "Save" -> TargetEditor_Save(u)
      [] m.tag = "Cancel" -> TargetEditor_Cancel(u)
      [] OTHER -> TargetEditor_route(u, m)

\* Message::OpenSettings
Update_OpenSettings(u) == Enter(u, Scene_settings)

\* Message::PickRepo(repo); opens says whether Url::from_directory_path and
\* Repo::open succeed
Update_PickRepo_selectnew(u, opt, opens) ==
    IF opt.tag = "New"
    THEN Enter([u EXCEPT !.config.selected_repo = Some(opt)], Scene_create_repo)
    ELSE IF IsSome(Config_find_repo(u.config, opt.id)) /\ opens
         THEN Same([u EXCEPT
                       !.repo = Some(RepoHandle(Unwrap(Config_find_repo(u.config, opt.id)).home)),
                       !.config.selected_repo = Some(opt)])
         ELSE Same(u)

Update_PickRepo_eager(u, opt, opens) ==
    IF opt.tag = "New" THEN Enter(u, Scene_create_repo)
    ELSE IF IsSome(Config_find_repo(u.config, opt.id))
         THEN IF opens
              THEN Same([u EXCEPT
                       !.repo = Some(RepoHandle(Unwrap(Config_find_repo(u.config, opt.id)).home)),
                       !.config.selected_repo = Some(opt)])
              ELSE Same([u EXCEPT !.config.selected_repo = Some(opt)])
         ELSE Same(u)

Update_PickRepo(u, opt, opens) ==
    IF opt.tag = "New" THEN Enter(u, Scene_create_repo)
    ELSE IF IsSome(Config_find_repo(u.config, opt.id)) /\ opens
         THEN Same([u EXCEPT
                       !.repo = Some(RepoHandle(Unwrap(Config_find_repo(u.config, opt.id)).home)),
                       !.config.selected_repo = Some(opt)])
         ELSE Same(u)

\* Message::SetPassphrase1
Update_SetPassphrase1(u, pass) ==
    IF u.scene.kind = "Initial" THEN Same([u EXCEPT !.scene.passphrase1 = pass])
    ELSE Same(u)

\* Message::SetPassphrase2
Update_SetPassphrase2(u, pass) ==
    IF u.scene.kind = "Initial" THEN Same([u EXCEPT !.scene.passphrase2 = pass])
    ELSE Same(u)

\* Message::InitialConfirm
Update_InitialConfirm_firstrun(u) ==
    IF u.scene.kind # "Initial" THEN Same(u)
    ELSE IF u.scene.passphrase1 = u.scene.passphrase2
         THEN LET cfg == [u.config EXCEPT !.passphrase_hash =
                              Some(hash_passphrase(u.scene.passphrase1))]
              IN  Enter([u EXCEPT !.config = cfg,
                                  !.passphrase = Some(u.scene.passphrase1)],
                        Scene_overview(cfg))
         ELSE Same([u EXCEPT !.scene.error = Some("Passphrases don't match")])

Update_InitialConfirm_storefirst(u) ==
    IF u.scene.kind # "Initial" THEN Same(u)
    ELSE IF IsSome(u.config.passphrase_hash)
         THEN IF verify_password(u.scene.passphrase1, Unwrap(u.config.passphrase_hash))
              THEN Enter([u EXCEPT !.passphrase = Some(u.scene.passphrase1)],
                         Scene_overview(u.config))
              ELSE Same([u EXCEPT !.scene.error = Some("Wrong passphrase")])
         ELSE LET cfg == [u.config EXCEPT !.passphrase_hash =
                              Some(hash_passphrase(u.scene.passphrase1))]
              IN  IF u.scene.passphrase1 = u.scene.passphrase2
                  THEN Enter([u EXCEPT !.config = cfg,
                                       !.passphrase = Some(u.scene.passphrase1)],
                             Scene_overview(cfg))
                  ELSE Same([u EXCEPT !.config = cfg,
                                      !.scene.error = Some("Passphrases don't match")])

Update_InitialConfirm_nopass(u) ==
    IF u.scene.kind # "Initial" THEN Same(u)
    ELSE IF IsSome(u.config.passphrase_hash)
         THEN IF verify_password(u.scene.passphrase1, Unwrap(u.config.passphrase_hash))
              THEN Enter(u, Scene_overview(u.config))
              ELSE Same([u EXCEPT !.scene.error = Some("Wrong passphrase")])
         ELSE Update_InitialConfirm_firstrun(u)

Update_InitialConfirm(u) ==
    IF u.scene.kind # "Initial" THEN Same(u)
    ELSE IF IsSome(u.config.passphrase_hash)
         THEN IF verify_password(u.scene.passphrase1, Unwrap(u.config.passphrase_hash))
              THEN Enter([u EXCEPT !.passphrase = Some(u.scene.passphrase1)],
                         Scene_overview(u.config))
              ELSE Same([u EXCEPT !.scene.error = Some("Wrong passphrase")])
         ELSE IF u.scene.passphrase1 = u.scene.passphrase2
              THEN LET cfg == [u.config EXCEPT !.passphrase_hash =
                                   Some(hash_passphrase(u.scene.passphrase1))]
                   IN  Enter([u EXCEPT !.config = cfg,
                                       !.passphrase = Some(u.scene.passphrase1)],
                             Scene_overview(cfg))
              ELSE Same([u EXCEPT !.scene.error = Some("Passphrases don't match")])

\* Message::SetRepoName
Update_SetRepoName(u, new_name) ==
    IF u.scene.kind = "CreateRepo" THEN Same([u EXCEPT !.scene.name = new_name])
    ELSE Same(u)

\* Uuid::new_v4: a key no repository of the map has
NewUuid(cfg) == Len(cfg.repos) + 1

\* Message::SaveRepo; inits says whether init_repo succeeds
Update_SaveRepo_noname(u, inits) ==
    IF u.scene.kind # "CreateRepo" THEN Same(u)
    ELSE IF u.scene.home = None
         THEN Same([u EXCEPT !.scene.error = Some("Home path must be set")])
    ELSE IF u.passphrase = None THEN Panic(u)
    ELSE IF ~inits
         THEN Same([u EXCEPT !.scene.error = Some("Initialing Rdedup Repo")])
    ELSE LET id == NewUuid(u.config)
             cfg == [u.config EXCEPT
                        !.repos = Append(@, [id |-> id, name |-> u.scene.name,
                                             home |-> Unwrap(u.scene.home),
                                             targets |-> << >>]),
                        !.selected_repo = Some(RepoOption_Select(id))]
         IN  Enter([u EXCEPT !.repo = Some(RepoHandle(Unwrap(u.scene.home))),
                             !.config = cfg],
                   Scene_overview(cfg))

Update_SaveRepo_noselect(u, inits) ==
    IF u.scene.kind # "CreateRepo" THEN Same(u)
    ELSE IF u.scene.name = ""
         THEN Same([u EXCEPT !.scene.error = Some("Name must be non-empty")])
    ELSE IF u.scene.home = None
         THEN Same([u EXCEPT !.scene.error = Some("Home path must be set")])
    ELSE IF u.passphrase = None THEN Panic(u)
    ELSE IF ~inits
         THEN Same([u EXCEPT !.scene.error = Some("Initialing Rdedup Repo")])
    ELSE LET id == NewUuid(u.config)
             cfg == [u.config EXCEPT
                        !.repos = Append(@, [id |-> id, name |-> u.scene.name,
                                             home |-> Unwrap(u.scene.home),
                                             targets |-> << >>])]
         IN  Enter([u EXCEPT !.repo = Some(RepoHandle(Unwrap(u.scene.home))),
                             !.config = cfg],
                   Scene_overview(cfg))

Update_SaveRepo_reset(u, inits) ==
    IF u.scene.kind # "CreateRepo" THEN Same(u)
    ELSE IF u.scene.name = ""
         THEN Same([u EXCEPT !.scene.error = Some("Name must be non-empty")])
    ELSE IF u.scene.home = None
         THEN Same([u EXCEPT !.scene.error = Some("Home path must be set")])
    ELSE IF u.passphrase = None THEN Panic(u)
    ELSE IF ~inits
         THEN Same([u EXCEPT !.scene.error = Some("Initialing Rdedup Repo")])
    ELSE LET cfg == [u.config EXCEPT
                        !.repos = << [id |-> 1, name |-> u.scene.name,
                                      home |-> Unwrap(u.scene.home),
                                      targets |-> << >>] >>,
                        !.selected_repo = Some(RepoOption_Select(1))]
         IN  Enter([u EXCEPT !.repo = Some(RepoHandle(Unwrap(u.scene.home))),
                             !.config = cfg],
                   Scene_overview(cfg))

Update_SaveRepo(u, inits) ==
    IF u.scene.kind # "CreateRepo" THEN Same(u)
    ELSE IF u.scene.name = ""
         THEN Same([u EXCEPT !.scene.error = Some("Name must be non-empty")])
    ELSE IF u.scene.home = None
         THEN Same([u EXCEPT !.scene.error = Some("Home path must be set")])
    ELSE IF u.passphrase = None THEN Panic(u)
    ELSE IF ~inits
         THEN Same([u EXCEPT !.scene.error = Some("Initialing Rdedup Repo")])
    ELSE LET id == NewUuid(u.config)
             cfg == [u.config EXCEPT
                        !.repos = Append(@, [id |-> id, name |-> u.scene.name,
                                             home |-> Unwrap(u.scene.home),
                                             targets |-> << >>]),
                        !.selected_repo = Some(RepoOption_Select(id))]
         IN  Enter([u EXCEPT !.repo = Some(RepoHandle(Unwrap(u.scene.home))),
                             !.config = cfg],
                   Scene_overview(cfg))

\* Message::RepoHome(msg)
Update_RepoHome(u, pm) ==
    IF u.scene.kind # "CreateRepo" THEN Same(u)
    ELSE LET sc1 == IF pm.tag = "Path" THEN [u.scene EXCEPT !.home = Some(pm.v)]
                    ELSE u.scene
         IN  Result([u EXCEPT !.scene = [sc1 EXCEPT !.s_home = FilePicker_update(@, pm)]],
                    IF FilePicker_spawns(pm) THEN {PendRepoHome} ELSE {},
                    FALSE)

\* Ui::view: zip_list resizes the row state of Overview to the targets shown
View_list(cfg, sc) ==
    IF sc.kind = "Overview" /\ IsSome(Config_selected_repo(cfg))
    THEN VecResize(sc.list, Len(Unwrap(Config_selected_repo(cfg)).targets), ListItemState)
    ELSE << >>

(***************************************************************************)
(* State.  config, scene, passphrase and repo are the fields of Ui;        *)
(* pending is the bag of file dialogs started by Command::perform whose    *)
(* result message has not been delivered; panicked says the process died   *)
(* in a panic.  Two history variables record what the claims refer to:     *)
(* via is the message whose handler built the current Scene value (and     *)
(* the kind of the scene it replaced), opened is the Config at the moment  *)
(* the target editor was opened, kept until the scene that Save or Cancel  *)
(* builds is itself replaced.  should_exit is the global SHOULD_EXIT flag,  *)
(* run says whether the event loop of Ui::run is running or has exited,    *)
(* saves counts the calls of Config::save.                                 *)
(***************************************************************************)
VARIABLES config, scene, passphrase, repo, pending, panicked, via, opened,
          should_exit, run, saves

vars == << config, scene, passphrase, repo, pending, panicked, via, opened,
           should_exit, run, saves >>

Ui == [config |-> config, scene |-> scene, passphrase |-> passphrase, repo |-> repo]

\* Ui::new with Config::load finding no file
Init ==
    /\ config = DefaultConfig
    /\ scene = Scene_init
    /\ passphrase = None
    /\ repo = None
    /\ pending = EmptyBag
    /\ panicked = FALSE
    /\ via = [msg |-> "new", from |-> "none"]
    /\ opened = None
    /\ should_exit = FALSE
    /\ run = "running"
    /\ saves = 0

\* Ui::should_exit
Ui_should_exit_never == FALSE

Ui_should_exit == should_exit

\* Drop for Ui: one more call of Config::save, n being the calls so far
Ui_drop_nosave(n) == n

Ui_drop(n) == n + 1

\* the event loop after an update: it polls should_exit and, on true, leaves
\* the loop, which drops the Ui
EventLoopPoll ==
    IF Ui_should_exit
    THEN /\ run' = "exited"
         /\ saves' = Ui_drop(saves)
    ELSE UNCHANGED << run, saves >>

\* the state after a handler returned r for message msg, pend being the
\* dialogs still running
Apply(r, msg, pend) ==
    /\ ~panicked
    /\ run = "running"
    /\ should_exit' = should_exit
    /\ IF r.panic
       THEN /\ panicked' = TRUE
            /\ pending' = pend
            /\ UNCHANGED << config, scene, passphrase, repo, via, opened, run, saves >>
       ELSE /\ config' = r.ui.config
            /\ scene' = r.ui.scene
            /\ passphrase' = r.ui.passphrase
            /\ repo' = r.ui.repo
            /\ pending' = (IF r.newscene /\ scene.kind \in EditorKinds
                            THEN BagOfAll(SessionEnded, pend)
                            ELSE pend) (+) SetToBag(r.spawn)
            /\ panicked' = FALSE
            /\ via' = IF r.newscene THEN [msg |-> msg, from |-> scene.kind] ELSE via
            /\ opened' = IF ~r.newscene \/ msg \in {"Save", "Cancel"} THEN opened
                         ELSE IF r.ui.scene.kind \in EditorKinds THEN Some(config)
                         ELSE None
            /\ EventLoopPoll

\* a message of the widgets: the view was built after the last update
Rendered ==
    scene.kind = "Overview" /\ IsSome(Config_selected_repo(config))
        => Len(scene.list) = Len(Unwrap(Config_selected_repo(config)).targets)

CanSpawn == BagCardinality(pending) < MaxPending

\* rows the editor view shows: izip! stops at the shortest vector
SourceRows ==
    0..(Min(Len(scene.editor.target.sources),
            Min(Len(scene.editor.s_delete_source_button), Len(scene.editor.s_source))) - 1)
ExcludeRows ==
    0..(Min(Len(scene.editor.target.excludes),
            Min(Len(scene.editor.s_exclude), Len(scene.editor.s_delete_exclude_button))) - 1)

(***************************************************************************)
(* Actions: one per message.                                               *)
(***************************************************************************)
\* Ui::view in Overview (zip_list)
View ==
    /\ ~panicked
    /\ run = "running"
    /\ scene.kind = "Overview"
    /\ ~Rendered
    /\ scene' = [scene EXCEPT !.list = View_list(config, scene)]
    /\ UNCHANGED << config, passphrase, repo, pending, panicked, via, opened,
                    should_exit, run, saves >>

\* Message::Tick of the subscription: the update does nothing
Tick ==
    /\ ~panicked
    /\ run = "running"
    /\ UNCHANGED << config, scene, passphrase, repo, pending, panicked, via, opened,
                    should_exit >>
    /\ EventLoopPoll

SetPassphrase1 ==
    /\ scene.kind = "Initial"
    /\ \E s \in PassInputs : Apply(Update_SetPassphrase1(Ui, s), "SetPassphrase1", pending)

SetPassphrase2 ==
    /\ scene.kind = "Initial"
    /\ config.passphrase_hash = None
    /\ \E s \in PassInputs : Apply(Update_SetPassphrase2(Ui, s), "SetPassphrase2", pending)

InitialConfirm ==
    /\ scene.kind = "Initial"
    /\ Apply(Update_InitialConfirm(Ui), "InitialConfirm", pending)

ToOverview ==
    /\ scene.kind \in {"CreateRepo", "Settings"}
    /\ Apply(Update_ToOverview(Ui), "ToOverview", pending)

NewTarget ==
    /\ scene.kind = "Overview"
    /\ Rendered
    /\ IsSome(config.selected_repo)
    /\ IsSome(Config_selected_repo(config))
          => Len(Unwrap(Config_selected_repo(config)).targets) < MaxTargets
    /\ Apply(Update_NewTarget(Ui), "NewTarget", pending)

OpenSettings ==
    /\ scene.kind = "Overview"
    /\ Rendered
    /\ Apply(Update_OpenSettings(Ui), "OpenSettings", pending)

PickRepo ==
    /\ scene.kind = "Overview"
    /\ Rendered
    /\ \E opt \in repo_options(config), opens \in BOOLEAN :
          /\ opt.tag = "New" => Len(config.repos) < MaxRepos
          /\ Apply(Update_PickRepo(Ui, opt, opens), "PickRepo", pending)

\* rows the Overview shows
ListRows ==
    IF IsSome(Config_selected_repo(config))
    THEN 0..(Len(Unwrap(Config_selected_repo(config)).targets) - 1)
    ELSE {}

ListItemEdit ==
    /\ scene.kind = "Overview"
    /\ Rendered
    /\ \E i \in ListRows : Apply(Update_Edit(Ui, i), "Edit", pending)

ListItemExpand ==
    /\ scene.kind = "Overview"
    /\ Rendered
    /\ \E i \in ListRows : Apply(Update_Expand(Ui, i), "Expand", pending)

SetName ==
    /\ scene.kind \in EditorKinds
    /\ \E s \in NameInputs : Apply(Update_TargetEditor(Ui, EM_SetName(s)), "SetName", pending)

NewSourceUpTo(max) ==
    /\ scene.kind \in EditorKinds
    /\ Len(scene.editor.s_source) < max
    /\ Apply(Update_TargetEditor(Ui, EM_NewSource), "NewSource", pending)

NewSource == NewSourceUpTo(MaxSources)

SourceSelectPath ==
    /\ scene.kind \in EditorKinds
    /\ CanSpawn
    /\ \E i \in SourceRows :
          Apply(Update_TargetEditor(Ui, EM_Source(i, PM_SelectPath)), "Source", pending)

\* history: where the slot of a running dialog is after sources.remove(i)
SlotAfterRemove(d, i) ==
    IF d.dest = "Source" /\ d.cur = i THEN [d EXCEPT !.cur = -1]
    ELSE IF d.dest = "Source" /\ d.cur > i THEN [d EXCEPT !.cur = @ - 1]
    ELSE d

DelSource ==
    /\ scene.kind \in EditorKinds
    /\ \E i \in SourceRows :
          LET Moved(d) == SlotAfterRemove(d, i)
          IN  Apply(Update_TargetEditor(Ui, EM_DelSource(i)), "DelSource",
                    BagOfAll(Moved, pending))

NewExcludeUpTo(max) ==
    /\ scene.kind \in EditorKinds
    /\ Len(scene.editor.s_exclude) < max
    /\ Apply(Update_TargetEditor(Ui, EM_NewExclude), "NewExclude", pending)

NewExclude == NewExcludeUpTo(MaxExcludes)

SetExclude ==
    /\ scene.kind \in EditorKinds
    /\ \E i \in ExcludeRows, s \in ExcludeInputs :
          Apply(Update_TargetEditor(Ui, EM_SetExclude(i, s)), "SetExclude", pending)

DelExclude ==
    /\ scene.kind \in EditorKinds
    /\ \E i \in ExcludeRows : Apply(Update_TargetEditor(Ui, EM_DelExclude(i)), "DelExclude", pending)

Save ==
    /\ scene.kind \in EditorKinds
    /\ Apply(Update_TargetEditor(Ui, EM_Save), "Save", pending)

Cancel ==
    /\ scene.kind \in EditorKinds
    /\ Apply(Update_TargetEditor(Ui, EM_Cancel), "Cancel", pending)

SetRepoName ==
    /\ scene.kind = "CreateRepo"
    /\ \E s \in RepoNameInputs : Apply(Update_SetRepoName(Ui, s), "SetRepoName", pending)

RepoHomeSelectPath ==
    /\ scene.kind = "CreateRepo"
    /\ CanSpawn
    /\ Apply(Update_RepoHome(Ui, PM_SelectPath), "RepoHome", pending)

SaveRepo ==
    /\ scene.kind = "CreateRepo"
    /\ \E inits \in BOOLEAN : Apply(Update_SaveRepo(Ui, inits), "SaveRepo", pending)

\* a file dialog ends: its closure's message is delivered, in whatever scene
SourceDelivers(d, resp) ==
    /\ d.dest = "Source"
    /\ Apply(Update_TargetEditor(Ui, EM_Source(d.i, DialogMessage(resp))), "Source",
             pending (-) SetToBag({d}))

SourceResult ==
    \E d \in BagToSet(pending), resp \in DialogResponses : SourceDelivers(d, resp)

RepoHomeDelivers(d, resp) ==
    /\ d.dest = "RepoHome"
    /\ Apply(Update_RepoHome(Ui, DialogMessage(resp)), "RepoHome",
             pending (-) SetToBag({d}))

RepoHomeResult ==
    \E d \in BagToSet(pending), resp \in DialogResponses : RepoHomeDelivers(d, resp)

Next ==
    \/ View
    \/ Tick
    \/ SetPassphrase1
    \/ SetPassphrase2
    \/ InitialConfirm
    \/ ToOverview
    \/ NewTarget
    \/ OpenSettings
    \/ PickRepo
    \/ ListItemEdit
    \/ ListItemExpand
    \/ SetName
    \/ NewSource
    \/ SourceSelectPath
    \/ DelSource
    \/ NewExclude
    \/ SetExclude
    \/ DelExclude
    \/ Save
    \/ Cancel
    \/ SetRepoName
    \/ RepoHomeSelectPath
    \/ SaveRepo
    \/ SourceResult
    \/ RepoHomeResult

Spec == Init /\ [][Next]_vars

(***************************************************************************)
(* SpecEditor: one session of the target editor, with more slots than Spec *)
(* allows.  It starts where NewTarget or ListItem(i, Edit) has just opened *)
(* the editor on a stored Config of two repositories, and ends in the      *)
(* Overview that Save or Cancel builds.                                    *)
(***************************************************************************)
StoredTarget(repo_id, sources, excludes) ==
    [repo |-> repo_id, name |-> "a", sources |-> sources, excludes |-> excludes,
     duplication |-> << >>]

StoredRepos ==
    << [id |-> 1, name |-> "r", home |-> "p",
        targets |-> << StoredTarget(1, << Some("p") >>, << >>),
                       StoredTarget(1, << Some("p") >>, << "x" >>) >>],
       [id |-> 2, name |-> "r", home |-> "p",
        targets |-> << StoredTarget(2, << Some("p") >>, << "x" >>) >>] >>

StoredUi(sel) ==
    LET cfg == [repos |-> StoredRepos,
                selected_repo |-> Some(RepoOption_Select(sel)),
                passphrase_hash |-> Some(hash_passphrase("s"))]
    IN  [config |-> cfg, scene |-> Scene_overview(cfg), passphrase |-> Some("s"),
         repo |-> Some(RepoHandle("p"))]

InitEditor ==
    \E sel \in 1..Len(StoredRepos) :
      \E r \in {Update_NewTarget(StoredUi(sel))}
                 \cup {Update_Edit(StoredUi(sel), i) :
                           i \in 0..(Len(StoredRepos[sel].targets) - 1)} :
        /\ config = r.ui.config
        /\ scene = r.ui.scene
        /\ passphrase = r.ui.passphrase
        /\ repo = r.ui.repo
        /\ pending = EmptyBag
        /\ panicked = FALSE
        /\ via = [msg |-> IF r.ui.scene.kind = "EditTarget" THEN "Edit" ELSE "NewTarget",
                  from |-> "Overview"]
        /\ opened = Some(r.ui.config)
        /\ should_exit = FALSE
        /\ run = "running"
        /\ saves = 0

NewSourceWide == NewSourceUpTo(EditorMaxSources)

NewExcludeWide == NewExcludeUpTo(EditorMaxExcludes)

NextEditor ==
    \/ View
    \/ Tick
    \/ SetName
    \/ NewSourceWide
    \/ SourceSelectPath
    \/ DelSource
    \/ NewExcludeWide
    \/ SetExclude
    \/ DelExclude
    \/ Save
    \/ Cancel
    \/ SourceResult

SpecEditor == InitEditor /\ [][NextEditor]_vars

(***************************************************************************)
(* SpecLoaded: the whole application, started on whatever Config::load     *)
(* returns: no file (the default Config), a Config with a stored           *)
(* passphrase hash, or one that also holds repositories and a selection.   *)
(***************************************************************************)
LoadedConfigs ==
    {DefaultConfig,
     [DefaultConfig EXCEPT !.passphrase_hash = Some(hash_passphrase("s"))],
     StoredUi(1).config}

\* the config file: missing, the JSON of a Config, or not parsable
ConfigFiles ==
    {[kind |-> "missing", v |-> DefaultConfig],
     [kind |-> "unparsable", v |-> DefaultConfig]}
        \cup {[kind |-> "json", v |-> c] : c \in LoadedConfigs}

\* Config::load: Ok(Config) or Err
Config_load(file) ==
    CASE file.kind = "missing" -> [ok |-> TRUE, v |-> DefaultConfig]
      [] file.kind = "json" -> [ok |-> TRUE, v |-> file.v]
      [] OTHER -> [ok |-> FALSE, v |-> DefaultConfig]

\* Ui::new: Config::load().context(..).unwrap() panics on Err
InitLoaded ==
    \E file \in ConfigFiles :
        /\ config = Config_load(file).v
        /\ panicked = ~Config_load(file).ok
        /\ scene = Scene_init
        /\ passphrase = None
        /\ repo = None
        /\ pending = EmptyBag
        /\ via = [msg |-> "new", from |-> "none"]
        /\ opened = None
        /\ should_exit = FALSE
        /\ run = "running"
        /\ saves = 0

SpecLoaded == InitLoaded /\ [][Next]_vars

(***************************************************************************)
(* SpecLife: the life of the process.  The Ctrl-C handler sets             *)
(* SHOULD_EXIT, the window can be closed, and the event loop polls         *)
(* should_exit after each update; the messages are those that move from    *)
(* scene to scene.  SpecLifeFair adds that the Tick of the 1-second        *)
(* subscription keeps being delivered.                                     *)
(***************************************************************************)
\* the handler main gives ctrlc::set_handler
Interrupt ==
    /\ ~panicked
    /\ run = "running"
    /\ ~should_exit
    /\ should_exit' = TRUE
    /\ UNCHANGED << config, scene, passphrase, repo, pending, panicked, via, opened,
                    run, saves >>

\* the window is closed: the event loop ends and the Ui is dropped
CloseWindow ==
    /\ ~panicked
    /\ run = "running"
    /\ run' = "exited"
    /\ saves' = Ui_drop(saves)
    /\ UNCHANGED << config, scene, passphrase, repo, pending, panicked, via, opened,
                    should_exit >>

NextLife ==
    \/ Interrupt
    \/ CloseWindow
    \/ Tick
    \/ View
    \/ SetPassphrase1
    \/ InitialConfirm
    \/ OpenSettings
    \/ ToOverview
    \/ PickRepo
    \/ NewTarget
    \/ ListItemEdit
    \/ Cancel

SpecLife == InitLoaded /\ [][NextLife]_vars

SpecLifeFair == InitLoaded /\ [][NextLife]_vars /\ WF_vars(Tick)

(***************************************************************************)
(* Properties.                                                             *)
(***************************************************************************)
InEditor == scene.kind \in EditorKinds

\* the validation predicate as the specification words it
Valid(target) ==
    /\ target.name # ""
    /\ Len(target.sources) > 0
    /\ \A j \in 1..Len(target.sources) : IsSome(target.sources[j])
    /\ \A j \in 1..Len(target.excludes) : target.excludes[j] # ""

\* the validation rules in the order name, sources non-empty, sources
\* resolved, excludes non-empty
RuleFails(target, k) ==
    CASE k = 1 -> target.name = ""
      [] k = 2 -> Len(target.sources) = 0
      [] k = 3 -> \E j \in 1..Len(target.sources) : ~IsSome(target.sources[j])
      [] k = 4 -> \E j \in 1..Len(target.excludes) : target.excludes[j] = ""

RuleError(k) ==
    CASE k = 1 -> "Name should not be empty"
      [] k = 2 -> "Should have at least one source"
      [] k = 3 -> "All sources should have a path"
      [] k = 4 -> "No exclude should be empty"

FirstFailingRule(target) ==
    CHOOSE k \in 1..4 : RuleFails(target, k) /\ \A j \in 1..(k - 1) : ~RuleFails(target, j)

\* the stored targets of the selected repository
SelectedTargets(cfg) == Unwrap(Config_selected_repo(cfg)).targets

\* C1: verify_target returns Ok for the working Target of the editor if and
\* only if its name is non-empty, it has a source, every source slot is Some
\* and no exclude is empty.
C1_VerifyIffValid ==
    InEditor => (verify_target(scene.editor.target) = Ok <=> Valid(scene.editor.target))

\* C1 witness: a Save has failed in this editor (verify_target returned Err)
\* and the working Target, with two sources and two excludes, is now valid.
C1_Witness ==
    /\ InEditor
    /\ IsSome(scene.editor.error)
    /\ Valid(scene.editor.target)
    /\ Len(scene.editor.target.sources) = 2
    /\ Len(scene.editor.target.excludes) = 2

\* C2: a Save on a working Target that breaks one or more rules sets the
\* editor's error to the message of the first failing rule in the order
\* name, sources non-empty, sources resolved, excludes non-empty.
C2_FirstFailingRuleWins ==
    [][(Save /\ InEditor /\ ~Valid(scene.editor.target))
          => /\ scene'.kind \in EditorKinds
             /\ scene'.editor.error =
                    Some(RuleError(FirstFailingRule(scene.editor.target)))]_vars

\* C2 witness: Save has reported the name error on a Target that has an empty
\* name, no sources and no excludes.
C2_Witness ==
    /\ InEditor
    /\ scene.editor.target.name = ""
    /\ scene.editor.target.sources = << >>
    /\ scene.editor.target.excludes = << >>
    /\ scene.editor.error = Some("Name should not be empty")

\* C3: a successful Save in EditTarget replaces exactly the element at
\* target_index of the selected repository's targets by the working Target:
\* same length, every other target and every other repository unchanged.
C3_SaveReplacesAtIndex ==
    [][(Save /\ scene.kind = "EditTarget" /\ Valid(scene.editor.target))
          => LET pos == SelectedPos(config)
                 idx == scene.target_index + 1
             IN  /\ ~panicked'
                 /\ pos # 0
                 /\ config'.selected_repo = config.selected_repo
                 /\ config'.passphrase_hash = config.passphrase_hash
                 /\ Len(config'.repos) = Len(config.repos)
                 /\ \A k \in 1..Len(config.repos) :
                        k # pos => config'.repos[k] = config.repos[k]
                 /\ config'.repos[pos].id = config.repos[pos].id
                 /\ config'.repos[pos].name = config.repos[pos].name
                 /\ config'.repos[pos].home = config.repos[pos].home
                 /\ Len(config'.repos[pos].targets) = Len(config.repos[pos].targets)
                 /\ idx <= Len(config.repos[pos].targets)
                 /\ config'.repos[pos].targets[idx] = scene.editor.target
                 /\ \A j \in 1..Len(config.repos[pos].targets) :
                        j # idx => config'.repos[pos].targets[j]
                                       = config.repos[pos].targets[j]]_vars

\* C3 witness: Save in EditTarget has built the Overview, the Config has two
\* repositories, the selected one has two targets and one of them changed.
C3_Witness ==
    /\ scene.kind = "Overview"
    /\ via = [msg |-> "Save", from |-> "EditTarget"]
    /\ Len(config.repos) = 2
    /\ Len(SelectedTargets(config)) = 2
    /\ IsSome(opened)
    /\ Unwrap(opened).repos # config.repos

\* C4: after Cancel the scene is Overview and every repository of the Config,
\* with its target list, is as it was when the editor was opened.
C4_CancelKeepsConfig ==
    via.msg = "Cancel"
        => /\ scene.kind = "Overview"
           /\ IsSome(opened)
           /\ config.repos = Unwrap(opened).repos

\* C4 witness: Cancel has built the Overview from EditTarget on a Config that
\* holds targets.
C4_Witness ==
    /\ via = [msg |-> "Cancel", from |-> "EditTarget"]
    /\ scene.kind = "Overview"
    /\ Len(config.repos) = 2
    /\ Len(SelectedTargets(config)) = 2

\* C5: while an editor is open, every step other than a successful Save and
\* Cancel changes nothing but the editor of the scene: the Config, the
\* passphrase, the opened repository, the scene kind and target_index stay.
C5_EditsStayInEditor ==
    [][(InEditor /\ ~(Save /\ Valid(scene.editor.target)) /\ ~Cancel)
          => /\ config' = config
             /\ passphrase' = passphrase
             /\ repo' = repo
             /\ scene'.kind = scene.kind
             /\ scene.kind = "EditTarget" => scene'.target_index = scene.target_index]_vars

\* C5 witness: EditTarget holds a valid working Target that differs from the
\* stored target it was cloned from, and the Config is the one the editor
\* was opened on.
C5_Witness ==
    /\ scene.kind = "EditTarget"
    /\ Valid(scene.editor.target)
    /\ scene.editor.target # SelectedTargets(config)[scene.target_index + 1]
    /\ opened = Some(config)

\* C6: Save on a working Target that fails validation leaves the scene as it
\* is but for the editor's error, which is the validation message, and
\* leaves the Config unchanged.
C6_FailedSaveStays ==
    [][(Save /\ InEditor /\ ~Valid(scene.editor.target))
          => /\ ~panicked'
             /\ config' = config
             /\ scene' = [scene EXCEPT !.editor.error =
                              Some(Unwrap(verify_target(scene.editor.target)))]]_vars

\* C6 witness: the editor shows the validation message of its invalid
\* working Target, which has sources and excludes.
C6_Witness ==
    /\ scene.kind = "EditTarget"
    /\ ~Valid(scene.editor.target)
    /\ Len(scene.editor.target.sources) > 0
    /\ Len(scene.editor.target.excludes) > 0
    /\ scene.editor.error = verify_target(scene.editor.target)

\* C7: from the empty Config, every Target stored in a repository satisfies
\* the validation predicate.
C7_StoredTargetsValid ==
    \A k \in 1..Len(config.repos) :
        \A j \in 1..Len(config.repos[k].targets) : Valid(config.repos[k].targets[j])

\* C7 witness: two repositories hold targets, one of them with an exclude.
C7_Witness ==
    /\ Len(config.repos) = 2
    /\ Len(config.repos[1].targets) = 2
    /\ Len(config.repos[2].targets) > 0
    /\ \E j \in 1..2 : Len(config.repos[1].targets[j].excludes) > 0

\* C8: in the editor the source widget-state vectors are as long as the
\* source vector: len(s_source) = len(s_delete_source_button) = len(sources).
C8_SourceStateInSync ==
    InEditor
        => /\ Len(scene.editor.s_source) = Len(scene.editor.target.sources)
           /\ Len(scene.editor.s_delete_source_button) = Len(scene.editor.target.sources)

\* C9: in the editor the exclude widget-state vectors are as long as the
\* exclude vector: len(s_exclude) = len(s_delete_exclude_button) = len(excludes).
C9_ExcludeStateInSync ==
    InEditor
        => /\ Len(scene.editor.s_exclude) = Len(scene.editor.target.excludes)
           /\ Len(scene.editor.s_delete_exclude_button) = Len(scene.editor.target.excludes)

\* C10: for every working Target, NewSource followed by DelSource of the
\* appended (last) index gives back the source list there was before.
C10_NewThenDelSource ==
    InEditor
        => LET n == Len(scene.editor.target.sources)
               u1 == Update_TargetEditor(Ui, EM_NewSource)
               u2 == Update_TargetEditor(u1.ui, EM_DelSource(n))
           IN  /\ ~u1.panic
               /\ ~u2.panic
               /\ Len(u1.ui.scene.editor.target.sources) = n + 1
               /\ u2.ui.scene.editor.target.sources = scene.editor.target.sources

\* C10 witness: a working Target whose sources are a resolved slot followed by
\* the unset slot NewSource appended.
C10_Witness ==
    /\ InEditor
    /\ Len(scene.editor.target.sources) = 2
    /\ IsSome(scene.editor.target.sources[1])
    /\ scene.editor.target.sources[2] = None

\* C11: processing Message::NewTarget while config.selected_repo is None
\* leaves the scene and the Config as they are (no new Scene is built, no
\* command is started, nothing panics), whatever the active scene.
C11_NewTargetUnselected ==
    config.selected_repo = None
        => LET r == Update_NewTarget(Ui)
           IN  /\ ~r.panic
               /\ ~r.newscene
               /\ r.spawn = {}
               /\ r.ui.scene = scene
               /\ r.ui.config = config

\* C11 witness: the Overview is shown, rendered, with no repository selected,
\* after the user came back from Settings or CreateRepo.
C11_Witness ==
    /\ scene.kind = "Overview"
    /\ Rendered
    /\ config.selected_repo = None
    /\ via.msg = "ToOverview"

\* C12: processing an edit request (Message::EditTarget(i) or
\* ListItem(i, Edit)) while no repository is selected is a no-op: the update
\* does not fail and leaves the scene and the Config unchanged.
C12_EditUnselectedIsNoop ==
    Config_selected_repo(config) = None
        => \A i \in 0..(MaxTargets - 1) :
               LET r == Update_Edit(Ui, i)
               IN  /\ ~r.panic
                   /\ r.ui.scene = scene
                   /\ r.ui.config = config

\* number of targets of the selected repository, 0 if none is selected
NTargets(cfg) ==
    IF IsSome(Config_selected_repo(cfg)) THEN Len(SelectedTargets(cfg)) ELSE 0

\* C13: right after every transition into Overview the per-row state list of
\* the Overview is as long as the target list of the selected repository (0
\* if none is selected) and holds only fresh row state.
C13_OverviewListMatchesTargets ==
    [][(scene.kind # "Overview" /\ scene'.kind = "Overview")
          => /\ Len(scene'.list) = NTargets(config')
             /\ \A j \in 1..Len(scene'.list) : scene'.list[j] = ListItemState]_vars

\* C14: ListItem(i, Edit) on a row of the Overview enters EditTarget with
\* target_index = i and a working Target equal to the target stored at index
\* i of the selected repository, the Config staying as it is; and while
\* EditTarget is open the Config is the one the editor was opened on, however
\* the working copy has been changed.
C14_EditClonesTarget ==
    /\ (scene.kind = "Overview" /\ Rendered)
          => \A i \in ListRows :
                 LET r == Update_Edit(Ui, i)
                 IN  /\ ~r.panic
                     /\ r.newscene
                     /\ r.ui.scene.kind = "EditTarget"
                     /\ r.ui.scene.target_index = i
                     /\ r.ui.scene.editor.target = SelectedTargets(config)[i + 1]
                     /\ r.ui.config = config
    /\ scene.kind = "EditTarget"
          => /\ opened = Some(config)
             /\ scene.target_index < Len(SelectedTargets(config))

\* C14 witness: EditTarget was entered for the second of two different
\* stored targets and its working copy no longer equals the stored target.
C14_Witness ==
    /\ scene.kind = "EditTarget"
    /\ via = [msg |-> "Edit", from |-> "Overview"]
    /\ scene.target_index = 1
    /\ SelectedTargets(config)[1] # SelectedTargets(config)[2]
    /\ scene.editor.target # SelectedTargets(config)[2]

\* C15: NewTarget enters CreateTarget with a working Target that has an empty
\* name, no sources, no excludes and no duplication rules and whose repo is
\* the identifier of the selected repository.
C15_CreateTargetStartsEmpty ==
    [][NewTarget
          => /\ scene'.kind = "CreateTarget"
             /\ SelectedPos(config) # 0
             /\ scene'.editor.target =
                    [repo |-> config.repos[SelectedPos(config)].id,
                     name |-> "",
                     sources |-> << >>,
                     excludes |-> << >>,
                     duplication |-> << >>]]_vars

\* C15 witness: CreateTarget has just been entered from the Overview of the
\* second repository, which already holds a target.
C15_Witness ==
    /\ scene.kind = "CreateTarget"
    /\ via = [msg |-> "NewTarget", from |-> "Overview"]
    /\ scene.editor = Editor_new_target(2)
    /\ config.selected_repo = Some(RepoOption_Select(2))
    /\ Len(SelectedTargets(config)) = 1

\* C16: the scene leaves Initial only in an InitialConfirm step that goes to
\* Overview with a confirmed passphrase: without a stored hash passphrase1 =
\* passphrase2 and its hash is stored; with a stored hash passphrase1
\* verifies against it and the Config stays as it is.
C16_InitialLeftByConfirm ==
    [][(scene.kind = "Initial" /\ scene'.kind # "Initial")
          => /\ InitialConfirm
             /\ scene'.kind = "Overview"
             /\ passphrase' = Some(scene.passphrase1)
             /\ IF config.passphrase_hash = None
                THEN /\ scene.passphrase1 = scene.passphrase2
                     /\ config' = [config EXCEPT !.passphrase_hash =
                                       Some(hash_passphrase(scene.passphrase1))]
                ELSE /\ verify_password(scene.passphrase1,
                                        Unwrap(config.passphrase_hash))
                     /\ config' = config]_vars

\* C16 witness: InitialConfirm has opened the Overview on a loaded Config
\* that holds a stored hash and repositories (a later run).
C16_Witness ==
    /\ scene.kind = "Overview"
    /\ via = [msg |-> "InitialConfirm", from |-> "Initial"]
    /\ Len(config.repos) = 2
    /\ config.passphrase_hash = Some(hash_passphrase("s"))
    /\ passphrase = Some("s")

\* C17: in every state whose scene is not Initial the passphrase of the Ui is
\* Some, so the unwrap of SaveRepo does not panic.
C17_PassphraseSetAfterInitial ==
    /\ scene.kind # "Initial" => IsSome(passphrase)
    /\ scene.kind = "CreateRepo"
          => \A inits \in BOOLEAN : ~Update_SaveRepo(Ui, inits).panic

\* C17 witness: CreateRepo holds a name and a home, so SaveRepo will unwrap
\* the passphrase, on a Config whose hash was loaded from disk.
C17_Witness ==
    /\ scene.kind = "CreateRepo"
    /\ scene.name # ""
    /\ IsSome(scene.home)
    /\ Len(config.repos) = 0
    /\ config.passphrase_hash = Some(hash_passphrase("s"))
    /\ passphrase = Some("s")

\* the edges of the scene graph
SceneEdges ==
    {<< "Initial", "Overview" >>,
     << "Overview", "CreateTarget" >>, << "CreateTarget", "Overview" >>,
     << "Overview", "EditTarget" >>, << "EditTarget", "Overview" >>,
     << "Overview", "CreateRepo" >>, << "CreateRepo", "Overview" >>,
     << "Overview", "Settings" >>, << "Settings", "Overview" >>}

\* C18: every change of the kind of the active scene follows one of the edges
\* Initial -> Overview, Overview <-> CreateTarget, Overview <-> EditTarget,
\* Overview <-> CreateRepo, Overview <-> Settings.
C18_SceneEdges ==
    [][scene'.kind # scene.kind => << scene.kind, scene'.kind >> \in SceneEdges]_vars

\* C18 witness: the Overview was rebuilt on coming back from Settings, on a
\* Config that took CreateRepo and the target editor to build.
C18_Witness ==
    /\ scene.kind = "Overview"
    /\ via = [msg |-> "ToOverview", from |-> "Settings"]
    /\ Len(config.repos) = 2
    /\ Len(config.repos[1].targets) > 0

\* C19: a file-picker result Source(j, ..) delivered to the editor after a
\* deletion acts on the source slot its dialog was requested for: it does
\* not panic on an index out of range and changes no other slot.
C19_NoStaleIndex ==
    [][\A d \in BagToSet(pending) :
          (d.dest = "Source" /\ InEditor /\ pending' = pending (-) SetToBag({d}))
             => /\ ~panicked'
                /\ \A k \in 1..Len(scene.editor.target.sources) :
                       scene'.editor.target.sources[k] # scene.editor.target.sources[k]
                           => k = d.cur + 1]_vars

\* C20: a file dialog that ends in cancellation or failure (path::Message::
\* Error) leaves the path of its slot as it was: the source slot and its
\* picker in the editor, the home and its picker in CreateRepo.
C20_DialogErrorKeepsPath ==
    \A d \in BagToSet(pending), e \in DialogErrors :
        /\ (d.dest = "Source" /\ InEditor)
              => LET r == Update_TargetEditor(Ui, EM_Source(d.i, PM_Error(e)))
                 IN  /\ r.ui.scene.editor.target = scene.editor.target
                     /\ r.ui.scene.editor.s_source = scene.editor.s_source
        /\ (d.dest = "RepoHome" /\ scene.kind = "CreateRepo")
              => LET r == Update_RepoHome(Ui, PM_Error(e))
                 IN  /\ ~r.panic
                     /\ r.ui.scene.home = scene.home
                     /\ r.ui.scene.s_home = scene.s_home

\* C20 witness: a dialog is running for a source slot of the editor that
\* already holds a path.
C20_Witness ==
    /\ InEditor
    /\ \E d \in BagToSet(pending) :
          /\ d.dest = "Source"
          /\ d.i < Len(scene.editor.target.sources)
          /\ d.i < Len(scene.editor.s_source)
          /\ scene.editor.target.sources[d.i + 1] = Some("p")
          /\ scene.editor.s_source[d.i + 1].path = Some("p")

\* C21: a file dialog the user cancelled is delivered to the Ui as a
\* cancellation of its own, not as an error outcome (and not as a path).
C21_CancelIsNotAnError ==
    [][\A d \in BagToSet(pending) :
          (SourceDelivers(d, RespCancel) \/ RepoHomeDelivers(d, RespCancel))
             => DialogMessage(RespCancel).tag \notin {"Error", "Path"}]_vars

\* C22: when the event loop has ended, by the interrupt flag or by closing
\* the window, Config::save has been called exactly once; while it runs,
\* not at all.
C22_SaveOnceOnExit ==
    /\ run = "exited" => saves = 1
    /\ run = "running" => saves = 0

\* C22 witness: the loop ended on the interrupt flag while the target editor
\* was open, and the save was made.
C22_Witness ==
    /\ run = "exited"
    /\ should_exit
    /\ scene.kind = "EditTarget"
    /\ saves = 1

\* C23: once SHOULD_EXIT is set the event loop eventually ends, in whatever
\* scene the application is.
C23_InterruptTerminates == should_exit ~> (run = "exited")

\* C23 witness: the loop has ended on the interrupt flag in the Settings
\* scene.
C23_Witness ==
    /\ should_exit
    /\ run = "exited"
    /\ scene.kind = "Settings"

\* C24: Config::load gives the default Config when the file is missing and
\* when it is not parsable, and Ui::new does not fail.
C24_LoadNeverFails ==
    via.msg = "new"
        => /\ ~panicked
           /\ \A file \in ConfigFiles :
                  file.kind \in {"missing", "unparsable"}
                      => Config_load(file) = [ok |-> TRUE, v |-> DefaultConfig]

\* C25: a SaveRepo with an empty name or an unset home fails, and a SaveRepo
\* that fails (also on an init or open error) leaves the Config, the opened
\* repo and the passphrase as they are and the scene CreateRepo with the same
\* name, home and picker, its error set.
C25_FailedSaveRepoKeepsState ==
    [][SaveRepo
          => /\ (scene.name = "" \/ scene.home = None) => scene'.kind = "CreateRepo"
             /\ scene'.kind = "CreateRepo"
                   => /\ ~panicked'
                      /\ config' = config
                      /\ repo' = repo
                      /\ passphrase' = passphrase
                      /\ IsSome(scene'.error)
                      /\ scene' = [scene EXCEPT !.error = scene'.error]]_vars

\* C25 witness: CreateRepo shows the error of a failed init for a name and a
\* home that are set, next to a repository created before.
C25_Witness ==
    /\ scene.kind = "CreateRepo"
    /\ scene.name = "r"
    /\ scene.home = Some("p")
    /\ scene.error = Some("Initialing Rdedup Repo")
    /\ Len(config.repos) = 1

\* the identifiers of the repositories
RepoIds(cfg) == {cfg.repos[k].id : k \in 1..Len(cfg.repos)}

\* C26: in every step each repository stays in the Config under its
\* identifier with its name and home, the set of identifiers changes only in
\* a SaveRepo step, and a SaveRepo that succeeds adds one identifier that
\* was not present before.
C26_ReposOnlyGrow ==
    [][/\ \A k \in 1..Len(config.repos) :
              \E j \in 1..Len(config'.repos) :
                  /\ config'.repos[j].id = config.repos[k].id
                  /\ config'.repos[j].name = config.repos[k].name
                  /\ config'.repos[j].home = config.repos[k].home
       /\ RepoIds(config') # RepoIds(config) => SaveRepo
       /\ (RepoIds(config') # RepoIds(config) \/ (SaveRepo /\ scene'.kind = "Overview"))
             => /\ Len(config'.repos) = Len(config.repos) + 1
                /\ Cardinality(RepoIds(config') \ RepoIds(config)) = 1
                /\ Cardinality(RepoIds(config')) = Len(config'.repos)]_vars

\* C26 witness: SaveRepo has added a second repository to one that holds a
\* target.
C26_Witness ==
    /\ via = [msg |-> "SaveRepo", from |-> "CreateRepo"]
    /\ Len(config.repos) = 2
    /\ Len(config.repos[1].targets) > 0
    /\ config.selected_repo = Some(RepoOption_Select(2))

\* C27: a dialog result Source(i, Path(p)) for an index i in range sets
\* source slot i to Some(p) and leaves the other slots, the name and the
\* excludes of the working Target unchanged.
C27_PathSetsSlot ==
    [][\A d \in BagToSet(pending), p \in PathInputs :
          (/\ InEditor
           /\ d.i < Len(scene.editor.target.sources)
           /\ SourceDelivers(d, Resp("Okay", p, TRUE)))
             => /\ ~panicked'
                /\ scene'.editor.target =
                       [scene.editor.target EXCEPT !.sources[d.i + 1] = Some(p)]]_vars

\* C27 witness: of two source slots the second was set by a dialog and the
\* first is still unset.
C27_Witness ==
    /\ InEditor
    /\ scene.editor.target.sources = << None, Some("p") >>
    /\ scene.editor.s_source[2].path = Some("p")

\* a sequence without its element at the 0-based index i
Without(v, i) == SubSeq(v, 1, i) \o SubSeq(v, i + 2, Len(v))

\* C28: DelSource(i) with i in range removes the i-th source slot and
\* DelExclude(i) the i-th exclude: the other elements keep value and
\* order, and the other collection, the name and the rest of the Target
\* are unchanged.
C28_DeleteRemovesIth ==
    InEditor
        => /\ \A i \in 0..(Len(scene.editor.target.sources) - 1) :
                  LET r == Update_TargetEditor(Ui, EM_DelSource(i))
                  IN  /\ ~r.panic
                      /\ r.ui.scene.editor.target =
                             [scene.editor.target EXCEPT !.sources = Without(@, i)]
           /\ \A i \in 0..(Len(scene.editor.target.excludes) - 1) :
                  LET r == Update_TargetEditor(Ui, EM_DelExclude(i))
                  IN  /\ ~r.panic
                      /\ r.ui.scene.editor.target =
                             [scene.editor.target EXCEPT !.excludes = Without(@, i)]

\* C28 witness: of the slots << Some, None >> and the excludes << "", "x" >>
\* the first ones have been deleted (the widget state still counts two).
C28_Witness ==
    /\ InEditor
    /\ Len(scene.editor.s_source) = 2
    /\ Len(scene.editor.s_exclude) = 2
    /\ scene.editor.target.sources = << None >>
    /\ scene.editor.target.excludes = << "x" >>

\* C29: PickRepo(Select(id)) selects the repository and opens it if it is
\* in the Config and opens; if the lookup or the opening fails the selection,
\* the opened repo and the scene stay as they are.  The repositories stay
\* in either case.
C29_PickRepoSelectsIfOpened ==
    scene.kind = "Overview"
        => \A id \in 1..(Len(config.repos) + 1), opens \in BOOLEAN :
               LET r == Update_PickRepo(Ui, RepoOption_Select(id), opens)
               IN  /\ ~r.panic
                   /\ r.ui.scene = scene
                   /\ r.ui.config.repos = config.repos
                   /\ IF id \in RepoIds(config) /\ opens
                      THEN /\ r.ui.config.selected_repo = Some(RepoOption_Select(id))
                           /\ IsSome(r.ui.repo)
                      ELSE /\ r.ui.config.selected_repo = config.selected_repo
                           /\ r.ui.repo = repo

\* C29 witness: the first repository is selected again after the creation
\* of the second had selected that one.
C29_Witness ==
    /\ scene.kind = "Overview"
    /\ Len(config.repos) = 2
    /\ config.selected_repo = Some(RepoOption_Select(1))

\* C30: an InitialConfirm that fails (no stored hash and passphrase1 #
\* passphrase2, or a stored hash passphrase1 does not verify against) keeps
\* the scene Initial but for its error, which it sets, and leaves the Config
\* and the passphrase of the Ui unchanged; and no step changes a stored hash.
C30_FailedConfirmKeepsState ==
    [][/\ (/\ InitialConfirm
           /\ IF config.passphrase_hash = None
              THEN scene.passphrase1 # scene.passphrase2
              ELSE ~verify_password(scene.passphrase1, Unwrap(config.passphrase_hash)))
             => /\ IsSome(scene'.error)
                /\ scene' = [scene EXCEPT !.error = scene'.error]
                /\ config' = config
                /\ passphrase' = passphrase
       /\ IsSome(config.passphrase_hash)
             => config'.passphrase_hash = config.passphrase_hash]_vars

\* C30 witness: Initial shows the error of a passphrase that did not verify
\* against the stored hash.
C30_Witness ==
    /\ scene.kind = "Initial"
    /\ scene.error = Some("Wrong passphrase")
    /\ config.passphrase_hash = Some(hash_passphrase("s"))
    /\ passphrase = None

\* C36: a dialog result Source(i, Path(p)) whose dialog was requested in an
\* editor scene that has since been left by Save or Cancel does not change
\* the working Target of the editor that is open when it arrives.
C36_NoCrossSessionResult ==
    [][\A d \in BagToSet(pending), p \in PathInputs :
          (InEditor /\ d.orphan /\ SourceDelivers(d, Resp("Okay", p, TRUE)))
             => scene'.editor.target = scene.editor.target]_vars

\* C31: a SaveRepo step succeeds exactly when the name and the home are set
\* and init_repo succeeds; it then moves to Overview, opens the repository
\* and makes the repository it added, which has the name and home of the
\* scene and no targets, the selected one.
C31_SaveRepoSelectsNew ==
    [][(SaveRepo /\ (scene'.kind = "Overview" \/ config' # config))
          => LET new == config'.repos[Len(config'.repos)]
             IN  /\ scene.name # ""
                 /\ IsSome(scene.home)
                 /\ scene'.kind = "Overview"
                 /\ Len(config'.repos) = Len(config.repos) + 1
                 /\ new.id \notin RepoIds(config)
                 /\ new.name = scene.name
                 /\ new.home = Unwrap(scene.home)
                 /\ new.targets = << >>
                 /\ config'.selected_repo = Some(RepoOption_Select(new.id))
                 /\ Config_selected_repo(config') = Some(new)
                 /\ repo' = Some(RepoHandle(new.home))]_vars

\* C31 witness: SaveRepo has opened the Overview on the first repository,
\* which is selected and has no targets.
C31_Witness ==
    /\ scene.kind = "Overview"
    /\ via = [msg |-> "SaveRepo", from |-> "CreateRepo"]
    /\ Len(config.repos) = 1
    /\ config.repos[1].targets = << >>
    /\ config.selected_repo = Some(RepoOption_Select(config.repos[1].id))

\* C32: a successful Save in CreateTarget appends the working Target to the
\* targets of the selected repository: the targets stored before keep their
\* values and indices, and the other repositories and the rest of the Config
\* are unchanged.
C32_CreateSaveAppends ==
    [][(Save /\ scene.kind = "CreateTarget" /\ Valid(scene.editor.target))
          => LET pos == SelectedPos(config)
             IN  /\ ~panicked'
                 /\ pos # 0
                 /\ scene'.kind = "Overview"
                 /\ config' = [config EXCEPT !.repos[pos].targets =
                                   config.repos[pos].targets \o << scene.editor.target >>]]_vars

\* C32 witness: Save in CreateTarget has built the Overview of a repository
\* that held two targets and now holds a third one with two sources.
C32_Witness ==
    /\ scene.kind = "Overview"
    /\ via = [msg |-> "Save", from |-> "CreateTarget"]
    /\ Len(SelectedTargets(config)) = 3
    /\ Len(SelectedTargets(config)[3].sources) = 2
    /\ IsSome(opened)
    /\ SubSeq(SelectedTargets(config), 1, 2) = SelectedTargets(Unwrap(opened))

\* C33: ListItem(i, Expand) on a row of the Overview makes row i the
\* expanded row if none is expanded and clears the expansion if any row is,
\* row i or another; it changes nothing else.
C33_ExpandToggles ==
    (scene.kind = "Overview" /\ Rendered)
        => \A i \in ListRows :
               LET r == Update_Expand(Ui, i)
               IN  /\ ~r.panic
                   /\ ~r.newscene
                   /\ r.ui.config = config
                   /\ r.ui.scene =
                          [scene EXCEPT !.selected_target =
                              IF scene.selected_target = None THEN Some(i) ELSE None]

\* C33 witness: the second of two rows is expanded (Expand on the first row
\* will collapse it).
C33_Witness ==
    /\ scene.kind = "Overview"
    /\ Rendered
    /\ scene.selected_target = Some(1)
    /\ NTargets(config) = 2

\* C34: every Target stored in a repository has the identifier of that
\* repository in its repo field.
C34_TargetsBoundToRepo ==
    \A k \in 1..Len(config.repos) :
        \A j \in 1..Len(config.repos[k].targets) :
            config.repos[k].targets[j].repo = config.repos[k].id

\* C34 witness: both repositories hold a target, the second one being
\* selected.
C34_Witness ==
    /\ Len(config.repos) = 2
    /\ Len(config.repos[1].targets) > 0
    /\ Len(config.repos[2].targets) > 0
    /\ config.selected_repo = Some(RepoOption_Select(config.repos[2].id))

\* C35: while the scene is CreateTarget or EditTarget the selection is the
\* one there was when the editor was opened, it refers to a repository of
\* the Config, and the identifier of that repository is the repo field of the
\* working Target.
C35_SelectionFixedInEditor ==
    InEditor
        => /\ IsSome(opened)
           /\ config.selected_repo = Unwrap(opened).selected_repo
           /\ SelectedPos(config) # 0
           /\ SelectedPos(config) = SelectedPos(Unwrap(opened))
           /\ config.repos[SelectedPos(config)].id = scene.editor.target.repo

\* C35 witness: EditTarget is open on a target of the second repository and
\* the working copy has been changed.
C35_Witness ==
    /\ scene.kind = "EditTarget"
    /\ config.selected_repo = Some(RepoOption_Select(2))
    /\ scene.editor.target.repo = 2
    /\ scene.editor.target # SelectedTargets(config)[scene.target_index + 1]

\* C37: whenever the scene is EditTarget a repository is selected and
\* target_index is smaller than the number of its targets, so that Scene::edit
\* at that index and the write of Save do not panic.
C37_EditIndexInRange ==
    scene.kind = "EditTarget"
        => /\ IsSome(Config_selected_repo(config))
           /\ scene.target_index < NTargets(config)
           /\ ~Scene_edit_panics(scene.target_index, config)
           /\ ~TargetEditor_SaveOk(Ui).panic

\* C37 witness: EditTarget is open on the last of two targets with a valid
\* working Target, ready for Save.
C37_Witness ==
    /\ scene.kind = "EditTarget"
    /\ NTargets(config) = 2
    /\ scene.target_index = 1
    /\ Valid(scene.editor.target)
    /\ IsSome(scene.editor.error)

\* C38: whenever the scene is Overview and selected_target is Some(i), i is
\* an index into the targets of the selected repository.
C38_ExpandedRowInRange ==
    (scene.kind = "Overview" /\ IsSome(scene.selected_target))
        => Unwrap(scene.selected_target) < NTargets(config)

\* C39: from the empty Config, selected_repo is None or Select(id) with id
\* the key of a repository of the Config.
C39_SelectionIsARepo ==
    \/ config.selected_repo = None
    \/ /\ Unwrap(config.selected_repo).tag = "Select"
       /\ Unwrap(config.selected_repo).id \in RepoIds(config)
       /\ IsSome(Config_selected_repo(config))

\* C39 witness: PickRepo(New) has opened CreateRepo for a second repository
\* while the first one stays selected.
C39_Witness ==
    /\ scene.kind = "CreateRepo"
    /\ via.msg = "PickRepo"
    /\ Len(config.repos) = 1
    /\ config.selected_repo = Some(RepoOption_Select(config.repos[1].id))

\* C40: no ListItem Expand and no TargetEditor Save the views deliver takes
\* a failure arm of Ui::update: Expand is processed in Overview, Save in
\* CreateTarget or EditTarget, and neither step panics.
C40_FailureArmsNotTaken ==
    [][/\ ListItemExpand => (scene.kind = "Overview" /\ ~panicked')
       /\ Save => (scene.kind \in EditorKinds /\ ~panicked')]_vars

\* C40 witness: a row of the Overview that Save in EditTarget built is
\* expanded.
C40_Witness ==
    /\ scene.kind = "Overview"
    /\ via = [msg |-> "Save", from |-> "EditTarget"]
    /\ IsSome(scene.selected_target)

====
